---- MODULE Spec2Model ----
(***************************************************************************)
(* Model of "Assignment 2 Software now":                                   *)
(*   Q3 fractal.py                 Koch-style fractal generator and CLI     *)
(*   Q1 encrypt,decrypt,verify.py  13-letter-group substitution cipher      *)
(*                                                                         *)
(* Python floats are modelled as exact numbers of the field Q(sqrt2,sqrt3): *)
(* every coordinate the generator produces for 3, 4, 6 and 12 sides lies   *)
(* in that field, so lengths and equalities are decided exactly.  Rounding *)
(* of IEEE doubles is not modelled.                                        *)
(***************************************************************************)
EXTENDS Integers, Sequences, FiniteSets, TLC

(***************************************************************************)
(* Bounds of the model                                                     *)
(***************************************************************************)
MaxDepth == 2
MaxShift == 4
MaxTextLen == 2

(***************************************************************************)
(* Exact arithmetic standing in for float arithmetic.                      *)
(* A number is <<a, b, c, d, q>> = (a + b*sqrt2 + c*sqrt3 + d*sqrt6) / q,   *)
(* kept in lowest terms with q > 0, so equal values are equal tuples.      *)
(***************************************************************************)
Abs(k) == IF k < 0 THEN -k ELSE k

RECURSIVE GCD(_, _)
GCD(m, n) == IF n = 0 THEN Abs(m) ELSE GCD(n, m % Abs(n))

Sgn(k) == IF k < 0 THEN -1 ELSE 1
Reduce(a, b, c, d, q, s) == <<a \div s, b \div s, c \div s, d \div s, q \div s>>
Norm(a, b, c, d, q) ==
    Reduce(a, b, c, d, q, Sgn(q) * GCD(GCD(GCD(GCD(a, b), c), d), q))

Rat(n, q) == Norm(n, 0, 0, 0, q)
FromInt(k) == Rat(k, 1)
Zero == FromInt(0)
Sqrt3 == Norm(0, 0, 1, 0, 1)

FAdd(x, y) == Norm(x[1]*y[5] + y[1]*x[5], x[2]*y[5] + y[2]*x[5],
                   x[3]*y[5] + y[3]*x[5], x[4]*y[5] + y[4]*x[5], x[5]*y[5])
FNeg(x) == <<-x[1], -x[2], -x[3], -x[4], x[5]>>
FSub(x, y) == FAdd(x, FNeg(y))
FMul(x, y) ==
    Norm(x[1]*y[1] + 2*x[2]*y[2] + 3*x[3]*y[3] + 6*x[4]*y[4],
         x[1]*y[2] + x[2]*y[1] + 3*(x[3]*y[4] + x[4]*y[3]),
         x[1]*y[3] + x[3]*y[1] + 2*(x[2]*y[4] + x[4]*y[2]),
         x[1]*y[4] + x[4]*y[1] + x[2]*y[3] + x[3]*y[2],
         x[5]*y[5])
\* conjugates sqrt3 -> -sqrt3 and sqrt2 -> -sqrt2, used to invert a divisor
Conj3(x) == <<x[1], x[2], -x[3], -x[4], x[5]>>
Conj2(x) == <<x[1], -x[2], x[3], -x[4], x[5]>>
\* u / n for a rational n
RatDivide(u, n) == Norm(u[1]*n[5], u[2]*n[5], u[3]*n[5], u[4]*n[5], u[5]*n[1])
\* 1/x = c * Conj2(n3) / (n3 * Conj2(n3)), with c = Conj3(x) and n3 = x * c
InvFrom(c, n3) == RatDivide(FMul(c, Conj2(n3)), FMul(n3, Conj2(n3)))
FInv(x) == InvFrom(Conj3(x), FMul(x, Conj3(x)))
FDiv(x, y) == FMul(x, FInv(y))

\* order on the rational numbers of the field
RatLess(x, y) == x[1]*y[5] < y[1]*x[5]

\* math.sin and math.cos at the angle m*pi/12 (m an integer)
SinQuadrant(m) ==
    CASE m = 0 -> Zero
      [] m = 1 -> Norm(0, -1, 0, 1, 4)
      [] m = 2 -> Rat(1, 2)
      [] m = 3 -> Norm(0, 1, 0, 0, 2)
      [] m = 4 -> Norm(0, 0, 1, 0, 2)
      [] m = 5 -> Norm(0, 1, 0, 1, 4)
      [] m = 6 -> FromInt(1)
math_sin(m) ==
    LET r == m % 24
    IN  IF r <= 6 THEN SinQuadrant(r)
        ELSE IF r <= 12 THEN SinQuadrant(12 - r)
        ELSE IF r <= 18 THEN FNeg(SinQuadrant(r - 12))
        ELSE FNeg(SinQuadrant(24 - r))
math_cos(m) == math_sin(m + 6)

(***************************************************************************)
(* Q3 fractal.py : geometry                                                *)
(***************************************************************************)
\* side counts whose vertices have exact coordinates, and 2 (rejected)
SidesInputs == {2, 3, 4, 6, 12}
LengthInputs == {Rat(-1, 1), Zero, Rat(1, 2), FromInt(2)}
DepthInputs == (-1)..MaxDepth

\* the vertices regular_polygon appends before closing, k = 0..n_sides-1
PolygonVertex(n_sides, side_len, k) ==
    LET R == FDiv(side_len, FMul(FromInt(2), math_sin(12 \div n_sides)))
        theta == (24 * k) \div n_sides
    IN  <<FMul(R, math_cos(theta)), FMul(R, math_sin(theta))>>

\* mutant: the closing pts.append(pts[0]) is forgotten
regular_polygon_open(n_sides, side_len) ==
    [k \in 1..n_sides |-> PolygonVertex(n_sides, side_len, k - 1)]

regular_polygon(n_sides, side_len) ==
    LET pts0 == [k \in 1..n_sides |-> PolygonVertex(n_sides, side_len, k - 1)]
    IN  Append(pts0, pts0[1])

\* mutant: the bump is raised with sin60 = 0.5
koch_subdivide_flat(p0, p1) ==
    LET x0 == p0[1]
        y0 == p0[2]
        dx == FSub(p1[1], x0)
        dy == FSub(p1[2], y0)
        three == FromInt(3)
        a == <<FAdd(x0, FDiv(dx, three)), FAdd(y0, FDiv(dy, three))>>
        b == <<FAdd(x0, FDiv(FMul(FromInt(2), dx), three)),
               FAdd(y0, FDiv(FMul(FromInt(2), dy), three))>>
        ux == FDiv(dx, three)
        uy == FDiv(dy, three)
        cos60 == Rat(1, 2)
        sin60 == Rat(1, 2)
        px == FSub(FAdd(a[1], FMul(ux, cos60)), FMul(uy, sin60))
        py == FAdd(FAdd(a[2], FMul(ux, sin60)), FMul(uy, cos60))
    IN  <<p0, a, <<px, py>>, b, p1>>

koch_subdivide(p0, p1) ==
    LET x0 == p0[1]
        y0 == p0[2]
        x1 == p1[1]
        y1 == p1[2]
        dx == FSub(x1, x0)
        dy == FSub(y1, y0)
        three == FromInt(3)
        two == FromInt(2)
        a == <<FAdd(x0, FDiv(dx, three)), FAdd(y0, FDiv(dy, three))>>
        b == <<FAdd(x0, FDiv(FMul(two, dx), three)),
               FAdd(y0, FDiv(FMul(two, dy), three))>>
        ux == FDiv(dx, three)
        uy == FDiv(dy, three)
        cos60 == Rat(1, 2)
        sin60 == FDiv(Sqrt3, two)
        px == FSub(FAdd(a[1], FMul(ux, cos60)), FMul(uy, sin60))
        py == FAdd(FAdd(a[2], FMul(ux, sin60)), FMul(uy, cos60))
        peak == <<px, py>>
    IN  <<p0, a, peak, b, p1>>

\* squared Euclidean distance of two points
Dist2(p, q) ==
    LET dx == FSub(q[1], p[1])
        dy == FSub(q[2], p[2])
    IN  FAdd(FMul(dx, dx), FMul(dy, dy))


\* mutant: the segment length divides by 4^depth
summary_metrics_pow4(n, len, d) ==
    LET segments == n * (4 ^ d)
        seg_len == FDiv(len, FromInt(4 ^ d))
        perimeter == FMul(FromInt(segments), seg_len)
    IN  [segments |-> segments, seg_len |-> seg_len, perimeter |-> perimeter]

\* write_summary: the three derived values written to the summary file
summary_metrics(n, len, d) ==
    LET segments == n * (4 ^ d)
        seg_len == FDiv(len, FromInt(3 ^ d))
        perimeter == FMul(FromInt(segments), seg_len)
    IN  [segments |-> segments, seg_len |-> seg_len, perimeter |-> perimeter]

(***************************************************************************)
(* State                                                                   *)
(***************************************************************************)
VARIABLES
    pc,         \* Q3: position of the program
    caller,     \* Q3: "main" when generate_fractal is called by main()
    n_sides, side_len, depth,   \* Q3: the three parameters
    pts,        \* Q3: generate_fractal's list
    it,         \* Q3: iterations of `for _ in range(depth)` completed
    points,     \* Q3: koch_iter's argument list
    new_pts,    \* Q3: koch_iter's list under construction
    i,          \* Q3: koch_iter's loop index
    raised,     \* Q3: exception propagating out, or "none"
    stdout,     \* Q3: messages printed so far
    files,      \* Q3: output files written so far, name -> content
    exit_code,  \* Q3: -1 while running
    q1          \* Q1: state of the cipher program

q3vars == <<pc, caller, n_sides, side_len, depth, pts, it, points, new_pts, i,
            raised, stdout, files, exit_code>>
vars == <<pc, caller, n_sides, side_len, depth, pts, it, points, new_pts, i,
          raised, stdout, files, exit_code, q1>>

NoFiles == [f \in {} |-> 0]

\* what a prompt can read: text that does not parse, or a number
IntTyped(S) == {[parses |-> FALSE, v |-> 0]} \cup {[parses |-> TRUE, v |-> k] : k \in S}
FloatTyped == {[parses |-> FALSE, v |-> Zero]} \cup
              {[parses |-> TRUE, v |-> x] : x \in LengthInputs}

(***************************************************************************)
(* Q3 fractal.py : generate_fractal, stepped edge by edge                   *)
(***************************************************************************)
\* line 52: pts = regular_polygon(n_sides, side_len)
RegularPolygon ==
    /\ pc = "regular_polygon"
    /\ IF n_sides < 3
       THEN /\ raised' = "ValueError"
            /\ pc' = "raised"
            /\ exit_code' = IF caller = "main" THEN 1 ELSE exit_code
            /\ pts' = pts
       ELSE /\ pts' = regular_polygon(n_sides, side_len)
            /\ pc' = "for_depth"
            /\ UNCHANGED <<raised, exit_code>>
    /\ it' = 0
    /\ UNCHANGED <<caller, n_sides, side_len, depth, points, new_pts, i,
                   stdout, files, q1>>

\* mutant: the loop runs range(depth + 1)
KochIterCall_oneMore ==
    /\ pc = "for_depth"
    /\ it < depth + 1
    /\ points' = pts
    /\ new_pts' = <<>>
    /\ i' = 0
    /\ pc' = "koch_for"
    /\ UNCHANGED <<caller, n_sides, side_len, depth, pts, it, raised, stdout,
                   files, exit_code, q1>>

\* lines 53-54 and 44: one more iteration, koch_iter(pts) is entered
KochIterCall ==
    /\ pc = "for_depth"
    /\ it < depth
    /\ points' = pts
    /\ new_pts' = <<>>
    /\ i' = 0
    /\ pc' = "koch_for"
    /\ UNCHANGED <<caller, n_sides, side_len, depth, pts, it, raised, stdout,
                   files, exit_code, q1>>

\* mutant: all five points of a subdivision are kept
KochIterEdge_keepAll ==
    /\ pc = "koch_for"
    /\ i < Len(points) - 1
    /\ new_pts' = new_pts \o koch_subdivide(points[i + 1], points[i + 2])
    /\ i' = i + 1
    /\ UNCHANGED <<pc, caller, n_sides, side_len, depth, pts, it, points,
                   raised, stdout, files, exit_code, q1>>

\* mutant: the first point of a subdivision is dropped instead of the last
KochIterEdge_skipFirst ==
    /\ pc = "koch_for"
    /\ i < Len(points) - 1
    /\ new_pts' = new_pts \o SubSeq(koch_subdivide(points[i + 1], points[i + 2]), 2, 5)
    /\ i' = i + 1
    /\ UNCHANGED <<pc, caller, n_sides, side_len, depth, pts, it, points,
                   raised, stdout, files, exit_code, q1>>

\* lines 45-47: one edge of the loop is subdivided
KochIterEdge ==
    /\ pc = "koch_for"
    /\ i < Len(points) - 1
    /\ LET seg_points == koch_subdivide(points[i + 1], points[i + 2])
       IN  new_pts' = new_pts \o SubSeq(seg_points, 1, Len(seg_points) - 1)
    /\ i' = i + 1
    /\ UNCHANGED <<pc, caller, n_sides, side_len, depth, pts, it, points,
                   raised, stdout, files, exit_code, q1>>

\* lines 48-49 and 54: the new list is closed, returned and bound to pts
KochIterClose ==
    /\ pc = "koch_for"
    /\ i >= Len(points) - 1
    /\ IF new_pts = <<>>
       THEN /\ raised' = "IndexError"
            /\ pc' = "raised"
            /\ exit_code' = IF caller = "main" THEN 1 ELSE exit_code
            /\ UNCHANGED <<new_pts, pts, it>>
       ELSE /\ new_pts' = Append(new_pts, new_pts[1])
            /\ pts' = new_pts'
            /\ it' = it + 1
            /\ pc' = "for_depth"
            /\ UNCHANGED <<raised, exit_code>>
    /\ UNCHANGED <<caller, n_sides, side_len, depth, points, i, stdout, files, q1>>

\* line 55: return pts
GenReturn ==
    /\ pc = "for_depth"
    /\ it >= depth
    /\ pc' = IF caller = "main" THEN "write_points" ELSE "returned"
    /\ UNCHANGED <<caller, n_sides, side_len, depth, pts, it, points, new_pts,
                   i, raised, stdout, files, exit_code, q1>>

\* a direct call generate_fractal(n_sides, side_len, depth) with any arguments
InitGen ==
    /\ pc = "regular_polygon"
    /\ caller = "api"
    /\ n_sides \in SidesInputs
    /\ side_len \in LengthInputs
    /\ depth \in DepthInputs
    /\ pts = <<>> /\ it = 0 /\ points = <<>> /\ new_pts = <<>> /\ i = 0
    /\ raised = "none"
    /\ stdout = {}
    /\ files = NoFiles
    /\ exit_code = -1
    /\ q1 = [pc |-> "off"]

NextGen == RegularPolygon \/ KochIterCall \/ KochIterEdge \/ KochIterClose \/ GenReturn

SpecGen == InitGen /\ [][NextGen]_vars


(***************************************************************************)
(* Q3 fractal.py : main()                                                  *)
(* Each command-line argument is read at one place of main(), so the model *)
(* decides there whether it was supplied and with which value.             *)
(***************************************************************************)
MsgSides == "Number of sides must be >= 3"
MsgDepth == "Depth must be >= 0"
MsgRetry == "Invalid input. Try again."
MsgNoPlot == "matplotlib not available - skipping PNG plot."

\* the uniform part of every step of main() before generate_fractal is called
MainFrame == UNCHANGED <<caller, pts, it, points, new_pts, i, raised, files, q1>>

\* lines 126-129: --sides was supplied
SidesFromArgs ==
    /\ pc = "sides"
    /\ \E v \in SidesInputs :
         /\ n_sides' = v
         /\ IF v < 3
            THEN stdout' = stdout \cup {MsgSides} /\ exit_code' = 1 /\ pc' = "exit"
            ELSE pc' = "length" /\ UNCHANGED <<stdout, exit_code>>
    /\ UNCHANGED <<side_len, depth>>
    /\ MainFrame

\* lines 125 and 105-112: prompt_int(..., min_val=3), one round of its loop
PromptSides ==
    /\ pc = "sides"
    /\ \E typed \in IntTyped(SidesInputs \cup DepthInputs) :
         IF typed.parses /\ ~(typed.v < 3)
         THEN n_sides' = typed.v /\ pc' = "length" /\ UNCHANGED stdout
         ELSE stdout' = stdout \cup {MsgRetry} /\ UNCHANGED <<n_sides, pc>>
    /\ UNCHANGED <<side_len, depth, exit_code>>
    /\ MainFrame

\* lines 133-134: --length was supplied; no check is made
LengthFromArgs ==
    /\ pc = "length"
    /\ \E x \in LengthInputs : side_len' = x
    /\ pc' = "depth"
    /\ UNCHANGED <<n_sides, depth, stdout, exit_code>>
    /\ MainFrame

\* lines 132 and 114-119: prompt_float, one round of its loop
PromptLength ==
    /\ pc = "length"
    /\ \E typed \in FloatTyped :
         IF typed.parses
         THEN side_len' = typed.v /\ pc' = "depth" /\ UNCHANGED stdout
         ELSE stdout' = stdout \cup {MsgRetry} /\ UNCHANGED <<side_len, pc>>
    /\ UNCHANGED <<n_sides, depth, exit_code>>
    /\ MainFrame

\* lines 139-141: --depth was supplied
DepthFromArgs ==
    /\ pc = "depth"
    /\ \E v \in DepthInputs :
         /\ depth' = v
         /\ IF v < 0
            THEN stdout' = stdout \cup {MsgDepth} /\ exit_code' = 1 /\ pc' = "exit"
            ELSE pc' = "makedirs" /\ UNCHANGED <<stdout, exit_code>>
    /\ UNCHANGED <<n_sides, side_len>>
    /\ MainFrame

\* lines 137 and 105-112: prompt_int(..., min_val=0), one round of its loop
PromptDepth ==
    /\ pc = "depth"
    /\ \E typed \in IntTyped(DepthInputs) :
         IF typed.parses /\ ~(typed.v < 0)
         THEN depth' = typed.v /\ pc' = "makedirs" /\ UNCHANGED stdout
         ELSE stdout' = stdout \cup {MsgRetry} /\ UNCHANGED <<depth, pc>>
    /\ UNCHANGED <<n_sides, side_len, exit_code>>
    /\ MainFrame

\* lines 143-147: os.makedirs(outdir), then generate_fractal is called
MakeDirs ==
    /\ pc = "makedirs"
    /\ pc' = "regular_polygon"
    /\ UNCHANGED <<n_sides, side_len, depth, stdout, exit_code>>
    /\ MainFrame

\* lines 152 and 57-60: one line per point (the %.6f rendering of the
\* coordinates is not modelled: a line is held as the point it renders)
WritePoints ==
    /\ pc = "write_points"
    /\ files' = ("koch_points.txt" :> pts) @@ files
    /\ pc' = "write_summary"
    /\ UNCHANGED <<caller, n_sides, side_len, depth, pts, it, points, new_pts,
                   i, raised, stdout, exit_code, q1>>

\* lines 153-155 and 62-78
WriteSummary ==
    /\ pc = "write_summary"
    /\ LET m == summary_metrics(n_sides, side_len, depth)
       IN  files' = ("koch_summary.txt" :>
                       [n_sides |-> n_sides, side_len |-> side_len, depth |-> depth,
                        segments |-> m.segments, seg_len |-> m.seg_len,
                        perimeter |-> m.perimeter, points_written |-> Len(pts)])
                    @@ files
    /\ stdout' = stdout \cup {"Wrote koch_points.txt", "Wrote koch_summary.txt"}
    /\ pc' = "plot"
    /\ UNCHANGED <<caller, n_sides, side_len, depth, pts, it, points, new_pts,
                   i, raised, exit_code, q1>>

PlotFrame == UNCHANGED <<caller, n_sides, side_len, depth, pts, it, points,
                         new_pts, i, raised, q1>>

\* line 158: --no-plot was given
NoPlot ==
    /\ pc = "plot"
    /\ pc' = "exit"
    /\ exit_code' = 0
    /\ UNCHANGED <<stdout, files>>
    /\ PlotFrame

\* mutant: the failed import is not caught
SavePlotUnavailable_raises ==
    /\ pc = "plot"
    /\ raised' = "ImportError"
    /\ pc' = "raised"
    /\ exit_code' = 1
    /\ UNCHANGED <<caller, n_sides, side_len, depth, pts, it, points, new_pts, i,
                   stdout, files, q1>>

\* lines 160 and 81-85: importing matplotlib fails inside save_plot
SavePlotUnavailable ==
    /\ pc = "plot"
    /\ stdout' = stdout \cup {MsgNoPlot}
    /\ pc' = "exit"
    /\ exit_code' = 0
    /\ UNCHANGED files
    /\ PlotFrame

\* lines 160 and 81-94: the figure is saved
SavePlot ==
    /\ pc = "plot"
    /\ files' = ("koch_plot.png" :> pts) @@ files
    /\ stdout' = stdout \cup {"Wrote koch_plot.png"}
    /\ pc' = "exit"
    /\ exit_code' = 0
    /\ PlotFrame

Init ==
    /\ pc = "sides"
    /\ caller = "main"
    /\ n_sides = 0 /\ side_len = Zero /\ depth = 0
    /\ pts = <<>> /\ it = 0 /\ points = <<>> /\ new_pts = <<>> /\ i = 0
    /\ raised = "none"
    /\ stdout = {}
    /\ files = NoFiles
    /\ exit_code = -1
    /\ q1 = [pc |-> "off"]

Next ==
    \/ SidesFromArgs \/ PromptSides
    \/ LengthFromArgs \/ PromptLength
    \/ DepthFromArgs \/ PromptDepth
    \/ MakeDirs
    \/ RegularPolygon \/ KochIterCall \/ KochIterEdge \/ KochIterClose \/ GenReturn
    \/ WritePoints \/ WriteSummary
    \/ NoPlot \/ SavePlotUnavailable \/ SavePlot

Spec == Init /\ [][Next]_vars


(***************************************************************************)
(* Q1 encrypt,decrypt,verify.py                                            *)
(* A character is its code point; a text is a sequence of characters.      *)
(***************************************************************************)
LOWER == [k \in 1..26 |-> 96 + k]
UPPER == [k \in 1..26 |-> 64 + k]
LOWER_FIRST == SubSeq(LOWER, 1, 13)
LOWER_SECOND == SubSeq(LOWER, 14, 26)
UPPER_FIRST == SubSeq(UPPER, 1, 13)
UPPER_SECOND == SubSeq(UPPER, 14, 26)

Range(f) == {f[k] : k \in DOMAIN f}

\* group.index(ch), counted from 0
GroupIndex(group, ch) == (CHOOSE k \in 1..Len(group) : group[k] = ch) - 1

\* mutant: the wrap-around uses one position too few
shift_within_group_short(ch, shift, group) ==
    group[((GroupIndex(group, ch) + shift) % (Len(group) - 1)) + 1]

shift_within_group(ch, shift, group) ==
    group[((GroupIndex(group, ch) + shift) % Len(group)) + 1]

LowerFirstSet == Range(LOWER_FIRST)
LowerSecondSet == Range(LOWER_SECOND)
UpperFirstSet == Range(UPPER_FIRST)
UpperSecondSet == Range(UPPER_SECOND)

\* the group a letter is mapped within, and the shift build_maps gives the group
GroupOf(ch) ==
    IF ch \in LowerFirstSet THEN LOWER_FIRST
    ELSE IF ch \in LowerSecondSet THEN LOWER_SECOND
    ELSE IF ch \in UpperFirstSet THEN UPPER_FIRST
    ELSE UPPER_SECOND

GroupShift(ch, shift1, shift2) ==
    IF ch \in LowerFirstSet THEN shift1 * shift2
    ELSE IF ch \in LowerSecondSet THEN -(shift1 + shift2)
    ELSE IF ch \in UpperFirstSet THEN -shift1
    ELSE shift2 ^ 2

\* the order in which build_maps inserts the keys of enc_map
EncKeys == LOWER_FIRST \o LOWER_SECOND \o UPPER_FIRST \o UPPER_SECOND

Letters == Range(EncKeys)

build_enc_map(shift1, shift2) ==
    [ch \in Letters |->
        shift_within_group(ch, GroupShift(ch, shift1, shift2), GroupOf(ch))]

SetMax(S) == CHOOSE m \in S : \A k \in S : k <= m

\* {v: k for k, v in enc_map.items()}: for a value, the last key inserted wins
invert_map(enc_map) ==
    [v \in Range(enc_map) |->
        EncKeys[SetMax({k \in 1..Len(EncKeys) : enc_map[EncKeys[k]] = v})]]

build_maps(shift1, shift2) ==
    <<build_enc_map(shift1, shift2), invert_map(build_enc_map(shift1, shift2))>>

transform_text(text, mapping) ==
    [k \in 1..Len(text) |->
        IF text[k] \in DOMAIN mapping THEN mapping[text[k]] ELSE text[k]]

\* characters of the sample texts: m n A Z and a space
TextChars == {109, 110, 65, 90, 32}
Texts == UNION {[1..n -> TextChars] : n \in 0..MaxTextLen}
ShiftInputs == (-MaxShift)..MaxShift
ShiftTyped == {[parses |-> FALSE, v |-> 0]} \cup
              {[parses |-> TRUE, v |-> k] : k \in ShiftInputs}

Q3Idle == UNCHANGED q3vars

\* lines 86-91: the two shifts are read; text that is no integer ends the run
ReadShifts ==
    /\ q1.pc = "input"
    /\ \E t1 \in ShiftTyped, t2 \in ShiftTyped :
         IF t1.parses /\ t2.parses
         THEN q1' = [q1 EXCEPT !.pc = "encrypt", !.shift1 = t1.v, !.shift2 = t2.v]
         ELSE q1' = [q1 EXCEPT !.pc = "exit", !.exit_code = 1,
                               !.out = "Invalid input. Please enter integers for shift1 and shift2."]
    /\ Q3Idle

\* lines 98 and 58-65; a missing raw_text.txt is lines 106-108
EncryptFile ==
    /\ q1.pc = "encrypt"
    /\ IF "raw_text.txt" \notin DOMAIN q1.fs
       THEN q1' = [q1 EXCEPT !.pc = "exit", !.exit_code = 1, !.out = "File not found:"]
       ELSE LET enc_map == build_maps(q1.shift1, q1.shift2)[1]
                cipher == transform_text(q1.fs["raw_text.txt"], enc_map)
            IN  q1' = [q1 EXCEPT !.pc = "decrypt", !.enc_map = enc_map,
                                 !.fs = ("encrypted_text.txt" :> cipher) @@ q1.fs]
    /\ Q3Idle

\* lines 101 and 68-75
DecryptFile ==
    /\ q1.pc = "decrypt"
    /\ LET dec_map == build_maps(q1.shift1, q1.shift2)[2]
           plain == transform_text(q1.fs["encrypted_text.txt"], dec_map)
       IN  q1' = [q1 EXCEPT !.pc = "verify", !.dec_map = dec_map,
                            !.fs = ("decrypted_text.txt" :> plain) @@ q1.fs]
    /\ Q3Idle

\* lines 104-105 and 78-81
VerifyFiles ==
    /\ q1.pc = "verify"
    /\ LET ok == q1.fs["raw_text.txt"] = q1.fs["decrypted_text.txt"]
       IN  q1' = [q1 EXCEPT !.pc = "exit", !.exit_code = 0, !.ok = ok,
                            !.out = IF ok THEN "Verification: SUCCESS"
                                    ELSE "Verification: FAILED"]
    /\ Q3Idle

InitQ1 ==
    /\ pc = "off"
    /\ caller = "none"
    /\ n_sides = 0 /\ side_len = Zero /\ depth = 0
    /\ pts = <<>> /\ it = 0 /\ points = <<>> /\ new_pts = <<>> /\ i = 0
    /\ raised = "none"
    /\ stdout = {}
    /\ files = NoFiles
    /\ exit_code = -1
    /\ \E fs \in {NoFiles} \cup {("raw_text.txt" :> t) : t \in Texts} :
         q1 = [pc |-> "input", shift1 |-> 0, shift2 |-> 0, fs |-> fs,
               enc_map |-> NoFiles, dec_map |-> NoFiles,
               ok |-> FALSE, out |-> "", exit_code |-> -1]

NextQ1 == ReadShifts \/ EncryptFile \/ DecryptFile \/ VerifyFiles

SpecQ1 == InitQ1 /\ [][NextQ1]_vars


(***************************************************************************)
(* Properties                                                              *)
(***************************************************************************)
PointsFile == "koch_points.txt"
SummaryFile == "koch_summary.txt"

\* generate_fractal has handed a list back to its caller
Returned == pc \in {"returned", "write_points", "write_summary", "plot"}
              \/ (pc = "exit" /\ exit_code = 0)
\* pts holds the output of regular_polygon or of a koch_iter application
HasLoop == pc \in {"for_depth", "koch_for"} \/ Returned
Positive(x) == RatLess(Zero, x)
Closed(l) == Len(l) >= 4 /\ l[1] = l[Len(l)]
Square(x) == FMul(x, x)

\* C1: for sides >= 3 and depth >= 0 the list generate_fractal returns has
\* sides * 4^depth edges, and that is the Segments value write_summary writes.
C1_EdgeCountIsSegments ==
    /\ (Returned /\ n_sides >= 3 /\ depth >= 0) => Len(pts) - 1 = n_sides * (4 ^ depth)
    /\ SummaryFile \in DOMAIN files => files[SummaryFile].segments = Len(pts) - 1

C1_Witness ==
    /\ SummaryFile \in DOMAIN files
    /\ n_sides = 4 /\ depth = 2
    /\ files[SummaryFile].segments = 64

\* C2: generate_fractal raises and produces no list whenever sides < 3,
\* depth < 0 or length <= 0.
C2_InvalidParameterRaises ==
    (pc # "regular_polygon" /\ (n_sides < 3 \/ depth < 0 \/ ~Positive(side_len)))
        => (raised # "none" /\ pts = <<>>)

\* C3: a run of main() with a parameter violating sides >= 3, depth >= 0 or
\* length > 0 writes no output file.
C3_InvalidParameterWritesNoFile ==
    DOMAIN files # {} => (n_sides >= 3 /\ depth >= 0 /\ Positive(side_len))

\* C4: the output of regular_polygon and of every koch_iter application is a
\* closed loop of at least 4 points.
C4_LoopClosed == HasLoop => Closed(pts)

C4_Witness == pc = "for_depth" /\ it = 2 /\ n_sides = 3 /\ Len(pts) = 49 /\ Closed(pts)

C7_DepthZeroIdentity ==
    (pc = "returned" /\ depth = 0) =>
        /\ pts = regular_polygon(n_sides, side_len)
        /\ n_sides = 3 => Len(pts) = 4

C7_Witness == pc = "returned" /\ depth = 0 /\ n_sides = 3 /\ side_len = FromInt(2)

\* C8: the points file and the summary file are written before plotting is
\* attempted, and whether the plot is saved, unavailable or disabled the step
\* leaves both files and the points as they are and ends the run normally.
C8_PlotStepKeepsOutputs ==
    [][pc = "plot" =>
          /\ {PointsFile, SummaryFile} \subseteq DOMAIN files
          /\ files[PointsFile] = pts
          /\ files'[PointsFile] = files[PointsFile]
          /\ files'[SummaryFile] = files[SummaryFile]
          /\ pts' = pts
          /\ raised' = "none" /\ exit_code' = 0 /\ pc' = "exit"]_vars

C8_Witness ==
    /\ pc = "exit" /\ exit_code = 0
    /\ MsgNoPlot \in stdout
    /\ DOMAIN files = {PointsFile, SummaryFile}
    /\ "koch_plot.png" \notin DOMAIN files
    /\ depth = 1

\* C9: one koch_iter step on a loop of E edges returns 4*E + 1 points with
\* output[4*k] = input[k] for k < E and output[4*E] = input[0], and the input
\* list is not modified.
C9_KochIterKeepsVertices ==
    [][pc = "koch_for" =>
          /\ points' = points
          /\ pc' = "koch_for" => pts' = pts
          /\ pc' = "for_depth" =>
                /\ points = pts
                /\ Len(pts') = 4 * (Len(points) - 1) + 1
                /\ \A k \in 0..(Len(points) - 2) : pts'[4 * k + 1] = points[k + 1]
                /\ pts'[4 * (Len(points) - 1) + 1] = points[1]]_vars

C9_Witness ==
    /\ pc = "for_depth" /\ it = 1 /\ n_sides = 3 /\ side_len = FromInt(2)
    /\ Len(points) = 4 /\ Len(pts) = 13
    /\ pts[5] = points[2] /\ pts[2] # points[2]

\* C10: for every pair of shifts the encryption map is a bijection of each
\* 13-letter group onto itself, decryption with the same shifts restores the
\* text, and characters outside the map are unchanged.
GroupSets == {LowerFirstSet, LowerSecondSet, UpperFirstSet, UpperSecondSet}
Q1Encrypted == q1.pc \in {"decrypt", "verify"} \/ (q1.pc = "exit" /\ q1.exit_code = 0)
Q1Decrypted == q1.pc = "verify" \/ (q1.pc = "exit" /\ q1.exit_code = 0)

C10_RoundTrip ==
    /\ Q1Encrypted =>
          /\ DOMAIN q1.enc_map = Letters
          /\ \A G \in GroupSets : {q1.enc_map[ch] : ch \in G} = G
          /\ Len(q1.fs["encrypted_text.txt"]) = Len(q1.fs["raw_text.txt"])
          /\ \A k \in 1..Len(q1.fs["raw_text.txt"]) :
                q1.fs["raw_text.txt"][k] \notin Letters =>
                    q1.fs["encrypted_text.txt"][k] = q1.fs["raw_text.txt"][k]
    /\ Q1Decrypted => q1.fs["decrypted_text.txt"] = q1.fs["raw_text.txt"]
    /\ (q1.pc = "exit" /\ q1.exit_code = 0) => q1.ok

C10_Witness ==
    /\ q1.pc = "exit" /\ q1.exit_code = 0 /\ q1.ok
    /\ q1.shift1 = -2 /\ q1.shift2 = 0
    /\ q1.fs["raw_text.txt"] = <<65, 32>>
    /\ q1.fs["encrypted_text.txt"] = <<67, 32>>

====
